---- MODULE Spec2Model ----
(***************************************************************************)
(* A model of a3_kadakia_111304945.py: the review loader (readCSV), the    *)
(* Word2Vec trainer, the feature extractor (getFeatures), the Ridge sweep  *)
(* (buildRatingPredictor), the user-factor stage and the __main__ script.  *)
(*                                                                         *)
(* Numbers that the script computes in floating point are kept as exact    *)
(* rationals <<num, den>>; a zero denominator is what numpy gives for a    *)
(* division by zero (<<0,0>> is NaN, <<1,0>> and <<-1,0>> are +-Inf).      *)
(* What the numerical libraries learn (Word2Vec vectors, the held-out MAE  *)
(* of a fitted Ridge model) is an input of the run, chosen in Init.        *)
(***************************************************************************)
EXTENDS Integers, Sequences, FiniteSets, TLC

VARIABLES
    argv,             \* sys.argv, the program name first
    fs,               \* the files on disk: name -> CSV table (rows of raw fields)
    mae,              \* held-out MAE of the Ridge fit of listC[i], in 1/AccUnit
    wv_seed,          \* selects the vectors Word2Vec learns in this run
    pc,               \* the statement of __main__ that runs next
    exc,              \* the exception that ended the run, or "none"
    training_file, trial_file,
    training_data, trial_data,
    train_w2v_model, test_w2v_model,
    train_x, test_x,
    rating_model, y_pred,
    users, user_lang_rep, v_matrix,
    user_PCA,         \* the fitted PCA transform as __main__ can reach it
    loaded,           \* the file names handed to pd.read_csv so far
    trained,          \* the calls of trainWord2VecModel so far
    pca_fits          \* the number of PCA(...).fit calls so far

vars == <<argv, fs, mae, wv_seed, pc, exc, training_file, trial_file,
          training_data, trial_data, train_w2v_model, test_w2v_model,
          train_x, test_x, rating_model, y_pred, users, user_lang_rep,
          v_matrix, user_PCA, loaded, trained, pca_fits>>

\* A name of __main__ (or a local) that no statement has assigned yet.
Unbound == [bound |-> FALSE]

\* Python's None.
None == [isNone |-> TRUE]

\* What a call gives back: a value, or the exception it raised.
Return(v) == [raised |-> "none", value |-> v]

Raise(e) == [raised |-> e]

(***************************************************************************)
(* Bounds of the model.                                                    *)
(***************************************************************************)
\* The longest CSV table the loader is checked on.
MaxRows == 3

\* The longest review list and review the feature extractor is checked on.
MaxReviews == 2

MaxTokens == 2

\* The unit of a mean absolute error: mae = k stands for k/AccUnit.
AccUnit == 4

\* The number of different outcomes of Word2Vec training that are tried.
NSeeds == 2

(***************************************************************************)
(* Exact rationals for numpy's float arithmetic.                           *)
(***************************************************************************)
Abs(n) == IF n < 0 THEN -n ELSE n

Sign(n) == IF n < 0 THEN -1 ELSE IF n > 0 THEN 1 ELSE 0

RECURSIVE Gcd(_, _)
Gcd(a, b) == IF b = 0 THEN a ELSE Gcd(b, a % b)

\* n / d for an integer n and a length d >= 0, as numpy's true_divide:
\* 0/0 is NaN, n/0 is +-Inf, no exception.
TrueDivide(n, d) ==
    IF d = 0 THEN <<Sign(n), 0>>
    ELSE LET g == Gcd(Abs(n), d) IN <<n \div g, d \div g>>

IsNaN(q) == q[2] = 0 /\ q[1] = 0

IsFinite(q) == q[2] > 0

\* q / d for a rational (or NaN/Inf) q and a length d >= 0.
RatDivide(q, d) ==
    IF IsNaN(q) THEN q
    ELSE IF q[2] = 0 THEN q
    ELSE IF d = 0 THEN <<Sign(q[1]), 0>>
    ELSE LET g == Gcd(Abs(q[1]), q[2] * d) IN <<q[1] \div g, (q[2] * d) \div g>>

\* a + b in IEEE arithmetic: NaN absorbs, Inf - Inf is NaN.
RatAdd(a, b) ==
    IF IsNaN(a) \/ IsNaN(b) THEN <<0, 0>>
    ELSE IF a[2] = 0 /\ b[2] = 0 THEN (IF a[1] = b[1] THEN a ELSE <<0, 0>>)
    ELSE IF a[2] = 0 THEN a
    ELSE IF b[2] = 0 THEN b
    ELSE LET n == a[1] * b[2] + b[1] * a[2]
             d == a[2] * b[2]
             g == Gcd(Abs(n), d)
         IN <<n \div g, d \div g>>

(***************************************************************************)
(* Strings: lower-casing, tokenizing, parsing an integer, substring test.  *)
(***************************************************************************)
Char(s, i) == SubSeq(s, i, i)

\* str.lower() on one character of the alphabet the reviews are written in.
LowerChar(c) ==
    CASE c = "G" -> "g"
      [] c = "B" -> "b"
      [] OTHER -> c

RECURSIVE LowerFrom(_, _)
LowerFrom(s, i) == IF i > Len(s) THEN "" ELSE LowerChar(Char(s, i)) \o LowerFrom(s, i + 1)

Lower(s) == LowerFrom(s, 1)

\* nltk.word_tokenize on text without punctuation: the maximal runs of
\* non-blank characters, in order.
RECURSIVE TokenizeFrom(_, _, _)
TokenizeFrom(s, i, cur) ==
    IF i > Len(s) THEN (IF cur = "" THEN <<>> ELSE <<cur>>)
    ELSE IF Char(s, i) = " "
         THEN (IF cur = "" THEN <<>> ELSE <<cur>>) \o TokenizeFrom(s, i + 1, "")
         ELSE TokenizeFrom(s, i + 1, cur \o Char(s, i))

word_tokenize(s) == TokenizeFrom(s, 1, "")

Digits == <<"0", "1", "2", "3", "4", "5", "6", "7", "8", "9">>

IsDigit(c) == \E k \in 1..10 : Digits[k] = c

DigitValue(c) == (CHOOSE k \in 1..10 : Digits[k] = c) - 1

IsNumeric(s) == Len(s) > 0 /\ \A i \in 1..Len(s) : IsDigit(Char(s, i))

RECURSIVE ParseFrom(_, _, _)
ParseFrom(s, i, acc) ==
    IF i > Len(s) THEN acc ELSE ParseFrom(s, i + 1, 10 * acc + DigitValue(Char(s, i)))

ParseInt(s) == ParseFrom(s, 1, 0)

\* Python's `pat in s` for two strings.
Contains(pat, s) ==
    \E i \in 1..(Len(s) - Len(pat) + 1) : SubSeq(s, i, i + Len(pat) - 1) = pat

(***************************************************************************)
(* readCSV (lines 18-53).  A table is the sequence of the file's data rows *)
(* as raw CSV fields; of the six columns the script reads column 0 (item   *)
(* id), 1 (rating), 4 (user id) and 5 (reviewText).                        *)
(***************************************************************************)
\* Fields pd.read_csv turns into NaN: the empty field and its NA markers.
NAValues == {"", "NA", "null"}

NaNCell == [kind |-> "nan"]

StrCell(s) == [kind |-> "str", s |-> s]

NumCell(n) == [kind |-> "num", n |-> n]

\* pd.read_csv: a column whose present fields are all numbers is numeric,
\* any other column holds the fields as str; an absent field is NaN.
read_csv(table) ==
    LET numeric(col) ==
            \A i \in 1..Len(table) :
                table[i][col] \in NAValues \/ IsNumeric(table[i][col])
        cell(field, col) ==
            IF field \in NAValues THEN NaNCell
            ELSE IF numeric(col) THEN NumCell(ParseInt(field))
            ELSE StrCell(field)
    IN [i \in 1..Len(table) |->
            [col \in DOMAIN table[i] |-> cell(table[i][col], col)]]

\* dataFile["reviewText"].replace("", np.nan)
ReplaceEmpty(dataFile) ==
    [i \in 1..Len(dataFile) |->
        IF dataFile[i].reviewText = StrCell("")
        THEN [dataFile[i] EXCEPT !.reviewText = NaNCell]
        ELSE dataFile[i]]

KeepRow(line) == line.reviewText # NaNCell

KeepFullRow(line) == \A col \in DOMAIN line : line[col] # NaNCell

\* dropna() without the subset: a row with any NaN goes.
dropnaAnyColumn(dataFile) == SelectSeq(dataFile, KeepFullRow)

\* dataFile.dropna(subset=["reviewText"])
dropna(dataFile) == SelectSeq(dataFile, KeepRow)

\* Python's int() on a cell: a number, the digits of a str, else ValueError.
int(cell) ==
    IF cell.kind = "num" THEN Return(cell.n)
    ELSE IF cell.kind = "str" /\ IsNumeric(cell.s) THEN Return(ParseInt(cell.s))
    ELSE Raise("ValueError")

\* word_tokenize(line[5].lower()) if type(line[5]) == str else "".
\* The "" placeholder has length 0 and no words, as the empty token list.
ReviewOf(cell) == IF cell.kind = "str" THEN word_tokenize(Lower(cell.s)) ELSE <<>>

\* The loop of lines 46-51 from row i on.
RECURSIVE ReadRows(_, _, _, _, _)
ReadRows(dataFile, i, item_ids, ratings, reviews) ==
    IF i > Len(dataFile) THEN Return(<<item_ids, reviews, ratings>>)
    ELSE LET id == int(dataFile[i].item_id)
             rating == int(dataFile[i].rating)
         IN IF id.raised # "none" THEN id
            ELSE IF rating.raised # "none" THEN rating
            ELSE ReadRows(dataFile, i + 1,
                          Append(item_ids, id.value),
                          Append(ratings, rating.value),
                          Append(reviews, ReviewOf(dataFile[i].reviewText)))

readCSV(table) == ReadRows(dropna(ReplaceEmpty(read_csv(table))), 1, <<>>, <<>>, <<>>)

(***************************************************************************)
(* trainWord2VecModel (lines 56-93).                                       *)
(***************************************************************************)
\* The dimension of the word vectors (size=128).
size == 128

RECURSIVE CountIn(_, _, _)
CountIn(word, review, j) ==
    IF j > Len(review) THEN 0
    ELSE (IF review[j] = word THEN 1 ELSE 0) + CountIn(word, review, j + 1)

RECURSIVE CountWord(_, _, _)
CountWord(word, reviews, r) ==
    IF r > Len(reviews) THEN 0
    ELSE CountIn(word, reviews[r], 1) + CountWord(word, reviews, r + 1)

WordsOf(reviews) ==
    UNION {{reviews[r][j] : j \in 1..Len(reviews[r])} : r \in 1..Len(reviews)}

\* The vector training gives a vocabulary word: what Word2Vec learns is not
\* computed here, it is one of NSeeds outcomes fixed by the run's seed, the
\* word and its frequency in the corpus.
Learned(seed, word, count) ==
    [i \in 1..size |-> ((seed * (Len(word) + i) + count) % 5) - 2]

\* Word2Vec(sentences=reviews, min_count=min_count, size=128, ...) and
\* train(): the vocabulary is the words that occur at least min_count times;
\* gensim raises RuntimeError when it is empty.
trainWord2VecModel(reviews, min_count, seed) ==
    LET vocab == {w \in WordsOf(reviews) : CountWord(w, reviews, 1) >= min_count}
    IN IF vocab = {} THEN Raise("RuntimeError")
       ELSE Return([index2word |-> vocab,
                    wv |-> [w \in vocab |-> Learned(seed, w, CountWord(w, reviews, 1))]])

(***************************************************************************)
(* getFeatures (lines 96-135).                                             *)
(***************************************************************************)
\* temp = [0] * 128
ZeroList == [i \in 1..128 |-> 0]

\* temp += w2v_model.wv[word]: numpy adds coordinate by coordinate.
VecAdd(temp, vec) == [i \in 1..Len(temp) |-> temp[i] + vec[i]]

\* temp / counter, the commented-out line 133.
AveragedByCounter(sums, review) ==
    [i \in 1..Len(sums.temp) |-> TrueDivide(sums.temp[i], sums.counter)]

\* What is appended for one review: temp / len(review) (line 132).
Averaged(sums, review) ==
    [i \in 1..Len(sums.temp) |-> TrueDivide(sums.temp[i], Len(review))]

\* The inner loop of lines 126-129 from word j on; sums is temp and counter.
RECURSIVE SumWords(_, _, _, _)
SumWords(w2v_model, review, j, sums) ==
    IF j > Len(review) THEN sums
    ELSE SumWords(w2v_model, review, j + 1,
                  IF review[j] \in w2v_model.index2word
                  THEN [temp |-> VecAdd(sums.temp, w2v_model.wv[review[j]]),
                        counter |-> sums.counter + 1]
                  ELSE sums)

\* The outer loop of lines 121-132 from review r on.
RECURSIVE FeatureRows(_, _, _, _)
FeatureRows(w2v_model, reviews, r, out) ==
    IF r > Len(reviews) THEN out
    ELSE FeatureRows(w2v_model, reviews, r + 1,
                     Append(out, Averaged(SumWords(w2v_model, reviews[r], 1,
                                                   [temp |-> ZeroList, counter |-> 1]),
                                          reviews[r])))

getFeatures(w2v_model, reviews) == FeatureRows(w2v_model, reviews, 1, <<>>)

\* A feature matrix holds a NaN or an Inf.
HasNonFinite(x) == \E r \in 1..Len(x) : \E i \in 1..Len(x[r]) : ~IsFinite(x[r][i])

(***************************************************************************)
(* buildRatingPredictor (lines 138-183).  The Ridge fit and its held-out   *)
(* MAE are scikit-learn's: acc[i] is the MAE of the model fitted with      *)
(* listC[i], in units of 1/AccUnit.                                        *)
(***************************************************************************)
\* listC, each strength as <<numerator, denominator>>.
listC == << <<1, 10000>>, <<1, 1000>>, <<1, 100>>, <<1, 10>>, <<1, 1>>,
            <<10, 1>>, <<100, 1>>, <<1000, 1>>, <<10000, 1>> >>

\* Ridge(random_state=42, alpha=C).fit(train_x, train_y)
Ridge(C) == [isNone |-> FALSE, alpha |-> C]

\* Better with the threshold included: acc <= 1.
BetterAtThreshold(acc, minAccuracy) == acc <= 1 * AccUnit /\ acc <= minAccuracy

\* Better without the comparison to the best so far.
BetterUntracked(acc, minAccuracy) == acc < 1 * AccUnit

\* if acc < 1 and acc <= minAccuracy
Better(acc, minAccuracy) == acc < 1 * AccUnit /\ acc <= minAccuracy

\* The loop of lines 169-181 from candidate i on.
RECURSIVE Sweep(_, _, _, _)
Sweep(acc, i, minAccuracy, bestModel) ==
    IF i > Len(listC) THEN bestModel
    ELSE IF Better(acc[i], minAccuracy)
         THEN Sweep(acc, i + 1, acc[i], Ridge(listC[i]))
         ELSE Sweep(acc, i + 1, minAccuracy, bestModel)

\* minAccuracy = 1, bestModel = None
buildRatingPredictor(acc) == Sweep(acc, 1, 1 * AccUnit, None)

(***************************************************************************)
(* Stage 2: getUserBackground, getUserLangRepresentation, runPCAMatrix     *)
(* (lines 189-259).                                                        *)
(***************************************************************************)
\* The position of user in the dict (kept as the list of its entries in
\* insertion order), 0 when it is no key yet.
UserIndex(dict, user) ==
    IF \E k \in 1..Len(dict) : dict[k].user = user
    THEN CHOOSE k \in 1..Len(dict) : dict[k].user = user
    ELSE 0

\* The loop of lines 219-232 over the rows of one file, from row i on.
RECURSIVE GroupRows(_, _, _)
GroupRows(dataFile, i, dict) ==
    IF i > Len(dataFile) THEN Return(dict)
    ELSE LET user == dataFile[i].user_id
             at == UserIndex(dict, user)
             grown == IF at = 0
                      THEN Append(dict, [user |-> user, item_ids |-> <<>>,
                                         ratings |-> <<>>, reviews |-> <<>>])
                      ELSE dict
             k == IF at = 0 THEN Len(grown) ELSE at
             id == int(dataFile[i].item_id)
             rating == int(dataFile[i].rating)
         IN IF id.raised # "none" THEN id
            ELSE IF rating.raised # "none" THEN rating
            ELSE GroupRows(dataFile, i + 1,
                     [grown EXCEPT ![k] =
                         [user |-> user,
                          item_ids |-> Append(@.item_ids, id.value),
                          ratings |-> Append(@.ratings, rating.value),
                          reviews |-> Append(@.reviews, ReviewOf(dataFile[i].reviewText))]])

\* The loop of line 213 over the files, from file f on.
RECURSIVE GroupFiles(_, _, _, _)
GroupFiles(disk, files, f, dict) ==
    IF f > Len(files) THEN Return(dict)
    ELSE IF files[f] \notin DOMAIN disk THEN Raise("FileNotFoundError")
    ELSE LET got == GroupRows(dropna(ReplaceEmpty(read_csv(disk[files[f]]))), 1, dict)
         IN IF got.raised # "none" THEN got
            ELSE GroupFiles(disk, files, f + 1, got.value)

getUserBackground(disk, files) == GroupFiles(disk, files, 1, <<>>)

\* temp_array += row for every row of temp_features, from row r on.
RECURSIVE SumRows(_, _, _)
SumRows(temp_features, r, temp_array) ==
    IF r > Len(temp_features) THEN temp_array
    ELSE SumRows(temp_features, r + 1,
                 [i \in 1..Len(temp_array) |-> RatAdd(temp_array[i], temp_features[r][i])])

\* The body of the loop of lines 241-249 for one user.
UserRep(model, entry) ==
    LET temp_features == getFeatures(model, entry.reviews)
        temp_array == SumRows(temp_features, 1, [i \in 1..128 |-> <<0, 1>>])
    IN [i \in 1..Len(temp_array) |-> RatDivide(temp_array[i], Len(temp_features))]

getUserLangRepresentation(model, dict) ==
    [k \in 1..Len(dict) |-> [user |-> dict[k].user, rep |-> UserRep(model, dict[k])]]

\* PCA(n_components=3)
n_components == 3

\* PCA(n_components=3).fit(X): scikit-learn refuses NaN/Inf and fewer
\* samples than components.  The components themselves are not computed:
\* the fitted transform is known by what it was fitted on.
PCAfit(X) ==
    IF HasNonFinite(X) \/ Len(X) < n_components THEN Raise("ValueError")
    ELSE Return([n_components |-> n_components, fitted_on |-> X])

\* user_PCA.transform(X): one row of n_components coordinates per sample;
\* entry <<r, k>> stands for the k-th principal coordinate of sample r.
PCAtransform(transform, X) ==
    [r \in 1..Len(X) |-> [k \in 1..transform.n_components |-> <<r, k>>]]

\* runPCAMatrix returns v_matrix alone; user_PCA is its local.
runPCAMatrix(user_reps) ==
    LET X == [k \in 1..Len(user_reps) |-> user_reps[k].rep]
        fitted == PCAfit(X)
    IN IF fitted.raised # "none" THEN fitted
       ELSE Return(PCAtransform(fitted.value, X))

(***************************************************************************)
(* __main__ (lines 267-357), one action per statement.  An uncaught        *)
(* exception ends the run: pc = "crashed", exc its name.                   *)
(***************************************************************************)
Crash(e) == pc' = "crashed" /\ exc' = e

\* Lines 271-279: the argument count picks the two file names.
ParseArgs ==
    /\ pc = "args"
    /\ IF Len(argv) < 3 \/ Len(argv) > 3
       THEN /\ training_file' = "food_train.csv"
            /\ trial_file' = "food_trial.csv"
       ELSE /\ training_file' = argv[2]
            /\ trial_file' = argv[3]
    /\ pc' = "read_training"
    /\ UNCHANGED <<argv, fs, mae, wv_seed, exc, training_data, trial_data,
                   train_w2v_model, test_w2v_model, train_x, test_x,
                   rating_model, y_pred, users, user_lang_rep, v_matrix,
                   user_PCA, loaded, trained, pca_fits>>

\* Line 284: training_data = readCSV(training_file)
ReadTraining ==
    /\ pc = "read_training"
    /\ loaded' = Append(loaded, training_file)
    /\ IF training_file \notin DOMAIN fs
       THEN Crash("FileNotFoundError") /\ UNCHANGED training_data
       ELSE LET got == readCSV(fs[training_file])
            IN IF got.raised # "none"
               THEN Crash(got.raised) /\ UNCHANGED training_data
               ELSE /\ training_data' = got.value
                    /\ pc' = "read_trial"
                    /\ UNCHANGED exc
    /\ UNCHANGED <<argv, fs, mae, wv_seed, training_file, trial_file, trial_data,
                   train_w2v_model, test_w2v_model, train_x, test_x,
                   rating_model, y_pred, users, user_lang_rep, v_matrix,
                   user_PCA, trained, pca_fits>>

\* Line 285: trial_data = readCSV(trial_file)
ReadTrial ==
    /\ pc = "read_trial"
    /\ loaded' = Append(loaded, trial_file)
    /\ IF trial_file \notin DOMAIN fs
       THEN Crash("FileNotFoundError") /\ UNCHANGED trial_data
       ELSE LET got == readCSV(fs[trial_file])
            IN IF got.raised # "none"
               THEN Crash(got.raised) /\ UNCHANGED trial_data
               ELSE /\ trial_data' = got.value
                    /\ pc' = "w2v_food"
                    /\ UNCHANGED exc
    /\ UNCHANGED <<argv, fs, mae, wv_seed, training_file, trial_file, training_data,
                   train_w2v_model, test_w2v_model, train_x, test_x,
                   rating_model, y_pred, users, user_lang_rep, v_matrix,
                   user_PCA, trained, pca_fits>>

\* One of the three `if "<pattern>" in trial_file:` blocks of lines 289-299:
\* both models are trained, the training one first.
TrainIf(here, pattern, min_count, next) ==
    /\ pc = here
    /\ IF ~Contains(pattern, trial_file)
       THEN /\ pc' = next
            /\ UNCHANGED <<exc, train_w2v_model, test_w2v_model, trained>>
       ELSE LET first == trainWord2VecModel(training_data[2], min_count, wv_seed)
                second == trainWord2VecModel(trial_data[2], min_count, wv_seed)
                call1 == [corpus |-> "training_data", min_count |-> min_count]
                call2 == [corpus |-> "trial_data", min_count |-> min_count]
            IN IF first.raised # "none"
               THEN /\ Crash(first.raised)
                    /\ trained' = Append(trained, call1)
                    /\ UNCHANGED <<train_w2v_model, test_w2v_model>>
               ELSE IF second.raised # "none"
               THEN /\ Crash(second.raised)
                    /\ trained' = trained \o <<call1, call2>>
                    /\ train_w2v_model' = first.value
                    /\ UNCHANGED test_w2v_model
               ELSE /\ pc' = next
                    /\ trained' = trained \o <<call1, call2>>
                    /\ train_w2v_model' = first.value
                    /\ test_w2v_model' = second.value
                    /\ UNCHANGED exc
    /\ UNCHANGED <<argv, fs, mae, wv_seed, training_file, trial_file,
                   training_data, trial_data, train_x, test_x,
                   rating_model, y_pred, users, user_lang_rep, v_matrix,
                   user_PCA, loaded, pca_fits>>

\* Lines 289-291
TrainFood == TrainIf("w2v_food", "food_", 5, "w2v_music")

\* Lines 293-295
TrainMusic == TrainIf("w2v_music", "music_", 10, "w2v_pets")

\* Lines 297-299
TrainPets == TrainIf("w2v_pets", "musicAndPetsup_", 20, "features_train")

\* Line 302: train_x = getFeatures(train_w2v_model, training_data[1])
FeaturesTrain ==
    /\ pc = "features_train"
    /\ IF train_w2v_model = Unbound
       THEN Crash("NameError") /\ UNCHANGED train_x
       ELSE /\ train_x' = getFeatures(train_w2v_model, training_data[2])
            /\ pc' = "features_test"
            /\ UNCHANGED exc
    /\ UNCHANGED <<argv, fs, mae, wv_seed, training_file, trial_file,
                   training_data, trial_data, train_w2v_model, test_w2v_model,
                   test_x, rating_model, y_pred, users, user_lang_rep,
                   v_matrix, user_PCA, loaded, trained, pca_fits>>

\* Line 303: test_x = getFeatures(test_w2v_model, trial_data[1])
FeaturesTest ==
    /\ pc = "features_test"
    /\ IF test_w2v_model = Unbound
       THEN Crash("NameError") /\ UNCHANGED test_x
       ELSE /\ test_x' = getFeatures(test_w2v_model, trial_data[2])
            /\ pc' = "build"
            /\ UNCHANGED exc
    /\ UNCHANGED <<argv, fs, mae, wv_seed, training_file, trial_file,
                   training_data, trial_data, train_w2v_model, test_w2v_model,
                   train_x, rating_model, y_pred, users, user_lang_rep,
                   v_matrix, user_PCA, loaded, trained, pca_fits>>

\* What scikit-learn and scipy refuse in line 171-175: an empty or
\* non-finite matrix, fewer than two held-out rows for pearsonr.
FitRefuses(x_train, x_test) ==
    \/ Len(x_train) = 0
    \/ Len(x_test) < 2
    \/ HasNonFinite(x_train)
    \/ HasNonFinite(x_test)

\* Line 308: rating_model = buildRatingPredictor(train_x, test_x, train_y, test_y)
BuildPredictor ==
    /\ pc = "build"
    /\ IF FitRefuses(train_x, test_x)
       THEN Crash("ValueError") /\ UNCHANGED rating_model
       ELSE /\ rating_model' = buildRatingPredictor(mae)
            /\ pc' = "predict"
            /\ UNCHANGED exc
    /\ UNCHANGED <<argv, fs, mae, wv_seed, training_file, trial_file,
                   training_data, trial_data, train_w2v_model, test_w2v_model,
                   train_x, test_x, y_pred, users, user_lang_rep,
                   v_matrix, user_PCA, loaded, trained, pca_fits>>

\* Line 309: y_pred = rating_model.predict(test_x).  The predictions are
\* known by the model that made them and the rows they are for.
Predict ==
    /\ pc = "predict"
    /\ IF rating_model = None
       THEN Crash("AttributeError") /\ UNCHANGED y_pred
       ELSE /\ y_pred' = [r \in 1..Len(test_x) |-> <<rating_model.alpha, r>>]
            /\ pc' = "report"
            /\ UNCHANGED exc
    /\ UNCHANGED <<argv, fs, mae, wv_seed, training_file, trial_file,
                   training_data, trial_data, train_w2v_model, test_w2v_model,
                   train_x, test_x, rating_model, users, user_lang_rep,
                   v_matrix, user_PCA, loaded, trained, pca_fits>>

\* Lines 314-339: the report; it prints and assigns nothing the later
\* statements read.
Report ==
    /\ pc = "report"
    /\ pc' = "users"
    /\ UNCHANGED <<argv, fs, mae, wv_seed, exc, training_file, trial_file,
                   training_data, trial_data, train_w2v_model, test_w2v_model,
                   train_x, test_x, rating_model, y_pred, users, user_lang_rep,
                   v_matrix, user_PCA, loaded, trained, pca_fits>>

\* Line 344: users = getUserBackground([training_file, trial_file])
UserBackground ==
    /\ pc = "users"
    /\ loaded' = loaded \o <<training_file, trial_file>>
    /\ LET got == getUserBackground(fs, <<training_file, trial_file>>)
       IN IF got.raised # "none"
          THEN Crash(got.raised) /\ UNCHANGED users
          ELSE /\ users' = got.value
               /\ pc' = "langrep"
               /\ UNCHANGED exc
    /\ UNCHANGED <<argv, fs, mae, wv_seed, training_file, trial_file,
                   training_data, trial_data, train_w2v_model, test_w2v_model,
                   train_x, test_x, rating_model, y_pred, user_lang_rep,
                   v_matrix, user_PCA, trained, pca_fits>>

\* Line 350: user_lang_rep = getUserLangRepresentation(train_w2v_model, users)
UserLangRep ==
    /\ pc = "langrep"
    /\ user_lang_rep' = getUserLangRepresentation(train_w2v_model, users)
    /\ pc' = "pca"
    /\ UNCHANGED <<argv, fs, mae, wv_seed, exc, training_file, trial_file,
                   training_data, trial_data, train_w2v_model, test_w2v_model,
                   train_x, test_x, rating_model, y_pred, users,
                   v_matrix, user_PCA, loaded, trained, pca_fits>>

\* Line 357: v_matrix = runPCAMatrix(user_lang_rep).  The call fits one PCA;
\* __main__ gets the projections, and no name of it is bound to user_PCA.
RunPCA ==
    /\ pc = "pca"
    /\ pca_fits' = pca_fits + 1
    /\ LET got == runPCAMatrix(user_lang_rep)
       IN IF got.raised # "none"
          THEN Crash(got.raised) /\ UNCHANGED v_matrix
          ELSE /\ v_matrix' = got.value
               /\ pc' = "done"
               /\ UNCHANGED exc
    /\ UNCHANGED <<argv, fs, mae, wv_seed, training_file, trial_file,
                   training_data, trial_data, train_w2v_model, test_w2v_model,
                   train_x, test_x, rating_model, y_pred, users, user_lang_rep,
                   user_PCA, loaded, trained>>

(***************************************************************************)
(* The runs that are checked: the files on disk, the command lines, the    *)
(* outcomes of the Ridge fits.                                             *)
(***************************************************************************)
Row(id, rating, user, text) ==
    [item_id |-> id, rating |-> rating, user_id |-> user, reviewText |-> text]

RECURSIVE Repeat(_, _)
Repeat(text, n) == IF n = 0 THEN "" ELSE text \o Repeat(text, n - 1)

\* A training file whose most frequent word passes every threshold.
TrainTable ==
    << Row("548", "5", "u1", Repeat("G ", 12)),
       Row("2", "1", "u2", "b " \o Repeat("g ", 8)),
       Row("3", "4", "u3", "g b b"),
       Row("4", "3", "u1", ""),
       Row("2", "2", "u3", "gb") >>

\* A trial file with enough words for min_count = n.
TrialTable(n) ==
    << Row("548", "4", "u2", Repeat("g ", n) \o "B"),
       Row("4258", "2", "u4", "b gb") >>

\* A trial file with a review of blanks only.
BlankTable ==
    << Row("548", "4", "u2", Repeat("g ", 5)),
       Row("4258", "2", "u4", "  ") >>

\* A trial file whose second item id is no integer.
BadIdTable ==
    << Row("548", "4", "u2", Repeat("g ", 5)),
       Row("x", "2", "u4", "b") >>

\* A training file with two users only.
TwoUserTable ==
    << Row("1", "5", "u2", Repeat("g ", 5)),
       Row("2", "1", "u4", "b g") >>

Disk ==
    [f \in {"food_train.csv", "food_trial.csv", "music_trial.csv",
            "musicAndPetsup_trial.csv", "food_music_trial.csv", "other_trial.csv",
            "food_blank_trial.csv", "food_badid_trial.csv", "food_small_train.csv"} |->
        CASE f = "food_train.csv" -> TrainTable
          [] f = "food_trial.csv" -> TrialTable(5)
          [] f = "music_trial.csv" -> TrialTable(10)
          [] f = "musicAndPetsup_trial.csv" -> TrialTable(20)
          [] f = "food_music_trial.csv" -> TrialTable(10)
          [] f = "other_trial.csv" -> TrialTable(5)
          [] f = "food_blank_trial.csv" -> BlankTable
          [] f = "food_badid_trial.csv" -> BadIdTable
          [] f = "food_small_train.csv" -> TwoUserTable]

TrainingNames == {"food_train.csv", "food_small_train.csv", "absent_train.csv"}

TrialNames == DOMAIN Disk \ {"food_train.csv", "food_small_train.csv"}

\* Command lines with zero to three arguments after the program name.
ArgvSamples ==
    {<<"a3.py">>, <<"a3.py", "food_train.csv">>}
    \cup {<<"a3.py", a, b>> : a \in TrainingNames, b \in TrialNames}
    \cup {<<"a3.py", "food_train.csv", b, "extra">> : b \in TrialNames}

\* Held-out MAEs of the nine fits: below, at and above 1.0.
MaeSamples ==
    { [i \in 1..9 |-> AccUnit + 1],
      [i \in 1..9 |-> AccUnit],
      [i \in 1..9 |-> IF i = 3 THEN 1 ELSE IF i = 7 THEN AccUnit - 1 ELSE AccUnit + 2],
      [i \in 1..9 |-> IF i \in {2, 6} THEN AccUnit - 2 ELSE AccUnit - 1] }

Init ==
    /\ argv \in ArgvSamples
    /\ fs = Disk
    /\ mae \in MaeSamples
    /\ wv_seed \in 1..NSeeds
    /\ pc = "args"
    /\ exc = "none"
    /\ training_file = Unbound
    /\ trial_file = Unbound
    /\ training_data = Unbound
    /\ trial_data = Unbound
    /\ train_w2v_model = Unbound
    /\ test_w2v_model = Unbound
    /\ train_x = Unbound
    /\ test_x = Unbound
    /\ rating_model = Unbound
    /\ y_pred = Unbound
    /\ users = Unbound
    /\ user_lang_rep = Unbound
    /\ v_matrix = Unbound
    /\ user_PCA = Unbound
    /\ loaded = <<>>
    /\ trained = <<>>
    /\ pca_fits = 0

Next ==
    \/ ParseArgs
    \/ ReadTraining
    \/ ReadTrial
    \/ TrainFood
    \/ TrainMusic
    \/ TrainPets
    \/ FeaturesTrain
    \/ FeaturesTest
    \/ BuildPredictor
    \/ Predict
    \/ Report
    \/ UserBackground
    \/ UserLangRep
    \/ RunPCA

Spec == Init /\ [][Next]_vars

(***************************************************************************)
(* readCSV alone: line 284 on every table of at most MaxRows rows.         *)
(***************************************************************************)
RowSamples ==
    { Row("1", "5", "u1", "G b"), Row("1", "3", "u1", ""),
      Row("2", "5", "u2", " "),   Row("2", "3", "u1", "7"),
      Row("1", "5", "u2", "NA"),  Row("2", "3", "u2", "b"),
      Row("x", "5", "u1", "b"),   Row("x", "3", "u2", ""),
      Row("2", "", "u1", "G b"),  Row("1", "3", "u2", "b") }

RECURSIVE SeqsUpTo(_, _)
SeqsUpTo(S, n) ==
    IF n = 0 THEN {<<>>}
    ELSE LET shorter == SeqsUpTo(S, n - 1)
         IN shorter \cup {Append(q, x) : q \in shorter, x \in S}

InitCSV ==
    /\ argv = <<"a3.py", "in.csv", "in.csv">>
    /\ fs \in {[f \in {"in.csv"} |-> table] : table \in SeqsUpTo(RowSamples, MaxRows)}
    /\ mae = [i \in 1..9 |-> AccUnit]
    /\ wv_seed = 1
    /\ pc = "read_training"
    /\ exc = "none"
    /\ training_file = "in.csv"
    /\ trial_file = "in.csv"
    /\ training_data = Unbound
    /\ trial_data = Unbound
    /\ train_w2v_model = Unbound
    /\ test_w2v_model = Unbound
    /\ train_x = Unbound
    /\ test_x = Unbound
    /\ rating_model = Unbound
    /\ y_pred = Unbound
    /\ users = Unbound
    /\ user_lang_rep = Unbound
    /\ v_matrix = Unbound
    /\ user_PCA = Unbound
    /\ loaded = <<>>
    /\ trained = <<>>
    /\ pca_fits = 0

NextCSV == ReadTraining

SpecCSV == InitCSV /\ [][NextCSV]_vars

(***************************************************************************)
(* getFeatures alone: line 302 on every list of at most MaxReviews reviews *)
(* of at most MaxTokens words, for embedding spaces that know one or both  *)
(* of the two words.                                                       *)
(***************************************************************************)
Words == {"g", "b"}

SpaceSamples ==
    { [index2word |-> vocab, wv |-> [w \in vocab |-> Learned(seed, w, Len(w) + seed)]] :
        vocab \in {{"g"}, {"g", "b"}}, seed \in 1..NSeeds }

InitFeat ==
    /\ argv = <<"a3.py", "in.csv", "food_in.csv">>
    /\ fs = Disk
    /\ mae = [i \in 1..9 |-> AccUnit]
    /\ wv_seed = 1
    /\ pc = "features_train"
    /\ exc = "none"
    /\ training_file = "in.csv"
    /\ trial_file = "food_in.csv"
    /\ \E reviews \in SeqsUpTo(SeqsUpTo(Words, MaxTokens), MaxReviews) :
          training_data = << [r \in 1..Len(reviews) |-> r], reviews,
                             [r \in 1..Len(reviews) |-> 5] >>
    /\ trial_data = << <<1, 2>>, << <<"g">>, <<"g">> >>, <<5, 4>> >>
    /\ train_w2v_model \in SpaceSamples
    /\ test_w2v_model = train_w2v_model
    /\ train_x = Unbound
    /\ test_x = Unbound
    /\ rating_model = Unbound
    /\ y_pred = Unbound
    /\ users = Unbound
    /\ user_lang_rep = Unbound
    /\ v_matrix = Unbound
    /\ user_PCA = Unbound
    /\ loaded = <<"in.csv", "food_in.csv">>
    /\ trained = << [corpus |-> "training_data", min_count |-> 5],
                    [corpus |-> "trial_data", min_count |-> 5] >>
    /\ pca_fits = 0

NextFeat == FeaturesTrain

SpecFeat == InitFeat /\ [][NextFeat]_vars

(***************************************************************************)
(* buildRatingPredictor alone: line 308 on every assignment of a held-out  *)
(* MAE below, at or above 1.0 to the nine candidates.                      *)
(***************************************************************************)
AccValues == {1, AccUnit - 1, AccUnit, AccUnit + 1}

OneRow == << [i \in 1..128 |-> <<0, 1>>] >>

InitPred ==
    /\ argv = <<"a3.py", "in.csv", "food_in.csv">>
    /\ fs = [f \in {"in.csv", "food_in.csv"} |-> TwoUserTable]
    /\ mae \in [1..9 -> AccValues]
    /\ wv_seed = 1
    /\ pc = "build"
    /\ exc = "none"
    /\ training_file = "in.csv"
    /\ trial_file = "food_in.csv"
    /\ training_data = << <<1>>, << <<"g">> >>, <<5>> >>
    /\ trial_data = << <<1, 2>>, << <<"g">>, <<"g">> >>, <<5, 4>> >>
    /\ train_w2v_model = trainWord2VecModel(training_data[2], 1, wv_seed).value
    /\ test_w2v_model = trainWord2VecModel(trial_data[2], 1, wv_seed).value
    /\ train_x = OneRow
    /\ test_x = OneRow \o OneRow
    /\ rating_model = Unbound
    /\ y_pred = Unbound
    /\ users = Unbound
    /\ user_lang_rep = Unbound
    /\ v_matrix = Unbound
    /\ user_PCA = Unbound
    /\ loaded = <<"in.csv", "food_in.csv">>
    /\ trained = << [corpus |-> "training_data", min_count |-> 5],
                    [corpus |-> "trial_data", min_count |-> 5] >>
    /\ pca_fits = 0

NextPred == BuildPredictor

SpecPred == InitPred /\ [][NextPred]_vars

(***************************************************************************)
(* The properties.                                                         *)
(***************************************************************************)
\* The held-out MAE of a model the sweep fitted.
MaeOf(model) == mae[CHOOSE i \in 1..Len(listC) : listC[i] = model.alpha]

\* C1: buildRatingPredictor never returns a model whose held-out MAE is 1.0
\* or more (exactly 1.0 is not eligible), and returns None when every one of
\* the nine candidates has MAE >= 1.0.
C1_NoModelAtOrAboveOne ==
    pc = "predict" =>
        /\ rating_model # None => MaeOf(rating_model) < AccUnit
        /\ (\A i \in 1..9 : mae[i] >= AccUnit) => rating_model = None

\* C1 happens: the sweep returned None although a candidate sat exactly at 1.0.
C1_Witness ==
    /\ pc = "predict"
    /\ rating_model = None
    /\ \E i \in 1..9 : mae[i] = AccUnit

\* C2: when some candidate has MAE below 1.0, a model is returned and no
\* candidate of the grid, wherever it stands in the sweep, has a strictly
\* lower MAE than the returned one.
C2_ReturnsMinimum ==
    (pc = "predict" /\ \E i \in 1..9 : mae[i] < AccUnit) =>
        /\ rating_model # None
        /\ \A i \in 1..9 : mae[i] >= MaeOf(rating_model)

\* C2 happens: the minimum is in the middle of the sweep, with eligible but
\* worse candidates before and after it.
C2_Witness ==
    /\ pc = "predict"
    /\ rating_model # None
    /\ rating_model.alpha = listC[4]
    /\ mae[1] = AccUnit - 1
    /\ mae[9] = AccUnit - 1
    /\ mae[4] = 1

\* C3: when buildRatingPredictor returned None, the run ends in
\* NoEligibleModelError and predict is never called on the absent model.
C3_AbsentModelHandled ==
    (rating_model = None /\ pc = "crashed") => exc = "NoEligibleModelError"

\* The reviews handed to the feature extractor hold one with no token.
HasEmptyReview(reviews) == \E r \in 1..Len(reviews) : Len(reviews[r]) = 0

\* C4: getFeatures on a review list that holds a review with zero tokens
\* raises DegenerateInputError and never returns a NaN/Inf vector.
C4_ZeroTokensRaise ==
    /\ (pc = "features_test") => ~HasNonFinite(train_x)
    /\ (pc # "features_train" /\ HasEmptyReview(training_data[2])) =>
           (pc = "crashed" /\ exc = "DegenerateInputError")

\* The sum of f over the finite set S.
RECURSIVE SetSum(_, _)
SetSum(S, f) ==
    IF S = {} THEN 0
    ELSE LET x == CHOOSE y \in S : TRUE IN f[x] + SetSum(S \ {x}, f)

\* The positions of a review whose token is in the space's vocabulary.
Matched(space, review) == {j \in 1..Len(review) : review[j] \in DOMAIN space.wv}

\* C5: for every non-empty review, getFeatures gives the coordinate-wise sum
\* of the vectors of the token occurrences that are in the vocabulary,
\* divided by the total number of tokens of the review; the vector has 128
\* coordinates, and there is one vector per review, in input order.
C5_SumOverTotalCount ==
    pc = "features_test" =>
        /\ Len(train_x) = Len(training_data[2])
        /\ \A r \in 1..Len(train_x) :
              LET review == training_data[2][r]
                  total(i) == SetSum(Matched(train_w2v_model, review),
                                     [j \in 1..Len(review) |->
                                         IF review[j] \in DOMAIN train_w2v_model.wv
                                         THEN train_w2v_model.wv[review[j]][i] ELSE 0])
              IN Len(review) > 0 =>
                    /\ Len(train_x[r]) = 128
                    /\ \A i \in 1..128 :
                          /\ train_x[r][i][2] > 0
                          /\ train_x[r][i][1] * Len(review) = total(i) * train_x[r][i][2]

\* C5 happens: two reviews were extracted, the second one with a word of the
\* vocabulary and a word outside it, and its vector is not zero.
C5_Witness ==
    /\ pc = "features_test"
    /\ Len(train_x) = 2
    /\ training_data[2][2] = <<"b", "g">>
    /\ training_data[2][1] = <<"g", "g">>
    /\ "b" \notin train_w2v_model.index2word
    /\ \E i \in 1..128 : train_x[2][i][1] # 0
    /\ train_x[1] # train_x[2]

\* C6: one embedding space is built in a run, from the training corpus, and
\* the trial reviews' features are extracted from that same space.
C6_OneTrainingSpace ==
    /\ Len(trained) <= 1
    /\ \A k \in 1..Len(trained) : trained[k].corpus = "training_data"
    /\ (pc = "build") => test_x = getFeatures(train_w2v_model, trial_data[2])

\* C7: the PCA transform is fitted once in a run, and after runPCAMatrix
\* returned, the fitted transform is kept along with the projections.
C7_TransformRetained ==
    /\ pca_fits <= 1
    /\ (pc = "done") => user_PCA # Unbound

\* C8: started with a number of arguments other than two, the program loads
\* no file and ends in a usage error.
C8_UsageError ==
    (Len(argv) # 3 /\ pc # "args") =>
        /\ loaded = <<>>
        /\ pc = "crashed"
        /\ exc = "UsageError"

\* The threshold of the last pattern of lines 289-299 that the name holds.
LastThreshold(name) ==
    IF Contains("musicAndPetsup_", name) THEN 20
    ELSE IF Contains("music_", name) THEN 10
    ELSE 5

\* C10: for every trial file name the feature extractor is reached with a
\* trained embedding model, trained last with the threshold of the last
\* matching pattern.
C10_ModelAlwaysTrained ==
    pc = "features_train" =>
        /\ train_w2v_model # Unbound
        /\ trained # <<>>
        /\ trained[Len(trained)].min_count = LastThreshold(trial_file)

\* A field of the review-text column that is empty or missing: the empty
\* field and the markers pandas reads as a missing value.
EmptyOrMissing(text) == text = "" \/ text = "NA" \/ text = "null"

\* The rows of a table that have a review text.
Retained(table) == {i \in 1..Len(table) : ~EmptyOrMissing(table[i].reviewText)}

\* The k-th retained row of a table, in input order.
KthRetained(table, k) ==
    CHOOSE i \in Retained(table) : Cardinality({j \in Retained(table) : j < i}) = k - 1

\* No present field of the review-text column is anything but a number: the
\* column is numeric and the script substitutes its placeholder for the text.
NonStringText(table) ==
    \A i \in 1..Len(table) :
        EmptyOrMissing(table[i].reviewText) \/ IsNumeric(table[i].reviewText)

\* C9: readCSV returns three lists of one length, the number of rows minus
\* the number of rows whose review text is empty or missing; entry k of each
\* list comes from the k-th retained row, in input order, duplicate item ids
\* kept.
C9_ParallelLists ==
    pc = "read_trial" =>
        LET table == fs[training_file]
            n == Len(table) - Cardinality({i \in 1..Len(table) :
                                              EmptyOrMissing(table[i].reviewText)})
        IN /\ Len(training_data) = 3
           /\ Len(training_data[1]) = n
           /\ Len(training_data[2]) = n
           /\ Len(training_data[3]) = n
           /\ \A k \in 1..n :
                 LET row == table[KthRetained(table, k)]
                 IN /\ training_data[1][k] = ParseInt(row.item_id)
                    /\ training_data[3][k] = ParseInt(row.rating)
                    /\ training_data[2][k] =
                           IF NonStringText(table) THEN <<>>
                           ELSE word_tokenize(Lower(row.reviewText))

\* C9 happens: a three-row table lost its middle row, and the two rows kept
\* carry the same item id with different ratings.
C9_Witness ==
    /\ pc = "read_trial"
    /\ Len(fs[training_file]) = 3
    /\ EmptyOrMissing(fs[training_file][2].reviewText)
    /\ training_data[1] = <<1, 1>>
    /\ training_data[3] = <<5, 3>>
    /\ training_data[2] = << <<"g", "b">>, <<"b">> >>

====
